---------------------------- MODULE Spec2Model ----------------------------
(***************************************************************************)
(* Telemetry ingestion of the particle-electrostatics apparatus.          *)
(*                                                                         *)
(* A session runs one of the front ends of the repository:                 *)
(*   "serial_plot": gui/live_feed_gui.py attached to motor_controls_gui:   *)
(*             the serial listener thread, its two bounded channel queues, *)
(*             and update_plot draining them on the Tk thread;             *)
(*   "serial_log": motor_controls_gui.py with a caller of init_csv on the  *)
(*             Tk thread: the same listener thread and the CSV session     *)
(*             log; nothing drains the queues (motor_controls_gui has no   *)
(*             consumer of its own).  The plot and the log share no        *)
(*             variable, every step of the listener is in both;            *)
(*   "ble":    BLE/client/ble_plotter.py, the receiver task with its       *)
(*             notification handler, run in a daemon thread by             *)
(*             BLE/client/ble_thread.py, and main.py's shutdown.           *)
(* start_motor and stop_motor act in every session.                        *)
(* The derivative block and convert_to_voltage are also run on their own   *)
(* ("detector", "convert") over chosen inputs.                             *)
(* Three more parts are followed in sessions of their own: the firmware's  *)
(* packet producer of server/server.py ("firmware"), the motor buttons     *)
(* with the run timer and the auto-ramp thread ("motor"), and the camera   *)
(* window with its frame saver ("camera").                                 *)
(*                                                                         *)
(* Voltages are integers in microvolts (vREF = 4.096 V = 4096000 uV, one   *)
(* ADC count of range 1 = 375 uV exactly); time is counted in ticks of     *)
(* 0.1 s.                                                                  *)
(***************************************************************************)
EXTENDS Integers, Sequences, FiniteSets, TLC

VARIABLES
    variant,          \* which ingestion variant this session runs
    conv,             \* convert_to_voltage: last arguments and result
    fw,               \* server/server.py: the timer callback's position, seq,
                      \* and the notifications handed to the BLE stack
    ramp,             \* auto_ramp_sequence: position of the ramp thread
    tmr,              \* timer_state and the pending root.after callbacks
    ser_out,          \* the last command written by send_command
    cam,              \* gui/camera_feed_gui.py: frame counter, published
                      \* frame name, save queue, frame saver, files written
    \* ---- motor_controls_gui.py: serial listener thread
    lpc,              \* position of serial_listener_thread
    cur,              \* the sample the listener is routing (locals seq, ms, ch*_v)
    v_state,          \* v_state: ch2_prev, ch3_prev, record
    derivatives,      \* derivatives: ch2, ch3, ch2_flag, ch3_flag
    latest,           \* latest snapshot
    data_queue_a0,    \* Queue(maxsize=2000), CH2
    data_queue_a1,    \* Queue(maxsize=2000), CH3
    motor_running,    \* motor_state['running']
    location_flag,    \* location_state['flag']
    \* ---- motor_controls_gui.py: CSV session log
    csv_file,         \* 0 = None, g = the file object opened by the g-th init_csv
    csv_writer,       \* 0 = None, g = the writer over the g-th file object
    csv_index,        \* csv_index
    log,              \* content of experiment_log.csv
    orphanRows,       \* rows written through a writer whose file was superseded
    unflushed,        \* rows written but not yet flushed: [cur, stale]
    \* ---- Tk thread: init_csv, update_plot
    gpc,              \* position of the Tk thread
    n_pairs,          \* update_plot: pairs left to drain
    plot_s0,          \* update_plot: data_queue_a0.qsize() as read
    plot_a0,          \* update_plot: local a0
    data_buffer_a0,   \* deque(maxlen=BUFFER_SIZE)
    data_buffer_a1,
    sample_idx,
    \* ---- history (never read by the program)
    nDecoded,         \* samples successfully decoded so far
    detLog,           \* ordinals of the samples the detector block was run on
    appendLog,        \* ordinals of the samples a row was appended for
    sess,             \* "none" | "active" | "broken": the logging session
    sessFrames,       \* ordinals of the samples read in the active session
    lastPush,         \* outcome of the last completed _q_put_drop_oldest
    nPops0,           \* items the consumer has taken from data_queue_a0
    badAt,            \* 0: no malformed frame yet, 1: one was rejected, 2: and a
                      \* valid frame was decoded after it
    \* ---- ble_plotter.py: receiver task, notification handler
    bpc,              \* position of ble_receiver_task
    btimer,           \* ticks left of the task's asyncio.sleep
    stop_event,       \* stop_event.is_set()
    csv_path,         \* whether a csv_path was given
    ble_csv,          \* ble_plotter.csv_file: "none" | "open" | "closed"
    ble_log,          \* content of the BLE csv file
    ble_queue_a0,     \* ble_plotter.data_queue_a0 = Queue()
    ble_queue_a1,     \* ble_plotter.data_queue_a1 = Queue()
    running_time,     \* running_time: 0, or 1 once set from the clock
    connected,        \* client.is_connected
    \* ---- main.py: the main thread
    mpc,              \* "run" | "sig_sleep" | "atexit_sleep" | "exited"
    mtimer,           \* ticks left of _shutdown's time.sleep
    \* ---- history of the receiver task
    nScanFails,       \* discoveries that returned no device
    nWaits5,          \* discovery backoff sleeps begun
    waited5,          \* ticks spent in discovery backoff sleeps
    openConns,        \* BleakClient contexts being entered or entered
    nCloses,          \* csv_file.close() calls
    stopInBackoff,    \* the stop signal was set during a backoff sleep
    lostSeen          \* the link has dropped during streaming

\* State of the parts that run on their own.
motorVars == << ramp, tmr, ser_out >>
sideVars == << conv, fw, motorVars, cam >>

vars == << variant, sideVars, lpc, cur, v_state, derivatives, latest, data_queue_a0,
           data_queue_a1, motor_running, location_flag, csv_file, csv_writer,
           csv_index, log, orphanRows, unflushed, gpc, n_pairs, plot_s0, plot_a0,
           data_buffer_a0, data_buffer_a1, sample_idx, nDecoded, detLog,
           appendLog, sess, sessFrames, lastPush, nPops0, badAt, bpc, btimer,
           stop_event, csv_path, ble_csv, ble_log, ble_queue_a0, ble_queue_a1,
           running_time, connected, mpc, mtimer, nScanFails, nWaits5, waited5,
           openConns, nCloses, stopInBackoff, lostSeen >>

bleVars == << bpc, btimer, stop_event, csv_path, ble_csv, ble_log, ble_queue_a0,
             ble_queue_a1, running_time, connected, mpc, mtimer, nScanFails,
             nWaits5, waited5, openConns, nCloses, stopInBackoff, lostSeen >>

serialVars == << lpc, cur, v_state, derivatives, latest, data_queue_a0,
                 data_queue_a1, csv_file, csv_writer, csv_index, log,
                 orphanRows, unflushed, gpc, n_pairs, plot_s0, plot_a0, data_buffer_a0,
                 data_buffer_a1, sample_idx, detLog, sess, sessFrames,
                 lastPush, nPops0 >>

---------------------------------------------------------------------------
\* Bounds of the model.

\* Samples decoded in one run.
MaxFrames == 3
\* Longest timed run, in units of time.
MaxHours == 2
\* update_timer_display callbacks pending at once.
MaxPending == 2
\* Stands for the 12 entries of ramp_steps.
RampSteps == 2
\* Stands for bracket = 1500 checks of one second per step.
Bracket == 2
\* Camera frames shown in one run.
MaxCamFrames == 5
\* Stands for SAVE_EVERY_N_FRAMES = 5.
SaveEvery == 2
\* Stands for maxsize=20 of the save queue.
SaveCap == 1
\* Stands for maxsize=2000 of the serial channel queues.
QueueCap == 2
\* Stands for DRAIN_CAP_PER_FRAME = 200 (below the queue capacity, as 200 < 2000).
DrainCap == 1
\* Stands for BUFFER_SIZE = 500.
BufferSize == 1
\* Calls of init_csv in one run.
MaxInits == 2
\* Notifications decoded in one run.
MaxNotifs == 2
\* Discoveries that find no device in one run.
MaxScanFails == 2

---------------------------------------------------------------------------
\* Serial lines.  A line is its prefix class, its text when it has no comma,
\* and its comma-separated parts; a part either parses with int() or not.

Tok(v) == [ok |-> TRUE, v |-> v]
BadTok == [ok |-> FALSE, v |-> 0]

CsvLine(parts) == [pre |-> "", text |-> "", f |-> parts]
TextLine(t) == [pre |-> "", text |-> t, f |-> << >>]

\* "1,10,8192,8192,8192"
LineS1 == CsvLine(<< Tok(1), Tok(10), Tok(8192), Tok(8192), Tok(8192) >>)
\* "2,20,8192,8300,8219": CH2 +108 counts, CH3 +27 counts
LineS2 == CsvLine(<< Tok(2), Tok(20), Tok(8192), Tok(8300), Tok(8219) >>)
\* "3,30,8192,81x2,8192": five parts, one not an integer
LineBadInt == CsvLine(<< Tok(3), Tok(30), Tok(8192), BadTok, Tok(8192) >>)
\* "4,40,8192,8192": four parts
LineBadCount == CsvLine(<< Tok(4), Tok(40), Tok(8192), Tok(8192) >>)
\* "seq,ms,ch0,ch2,ch3": the device's header line
LineHeader == [pre |-> "seq", text |-> "", f |-> << BadTok, BadTok, BadTok, BadTok, BadTok >>]
\* "[BLE RX] 99.0% (rx=1, miss=0, exp=1)"
LineBleRx == [pre |-> "[", text |-> "", f |-> << BadTok, BadTok, BadTok >>]
LineBlank == TextLine("")

SampleLines == { LineS1, LineS2 }
MalformedLines == { LineBadInt, LineBadCount, LineHeader, LineBleRx, TextLine("garbage") }
MarkerLines == { TextLine("RUNNING"), TextLine("STOP"), TextLine("PROBE_LOW") }
SerialLines == SampleLines \cup MalformedLines \cup MarkerLines \cup { LineBlank }

\* ',' in line and not line.startswith('[') and not line.lower().startswith('seq')
IsCsvCandidate(line) == Len(line.f) >= 2 /\ line.pre # "[" /\ line.pre # "seq"

\* Mutant of ParsesAsSample: the fields are not checked to be integers.
ParsesAsSample_Lenient(line) == IsCsvCandidate(line) /\ Len(line.f) = 5
\* len(parts) == 5 and map(int, parts) raises no ValueError
ParsesAsSample(line) ==
    /\ IsCsvCandidate(line)
    /\ Len(line.f) = 5
    /\ \A i \in 1..5 : line.f[i].ok

\* convert_to_voltage(raw, inputRange, vREF=4.096), in microvolts.
\* ratio = raw / (1 << 14), so ratio * vREF = raw * LSB with
\* LSB = vREF / 2^14 = 250 uV.
VREF == 4096000
ADC_FULL == 16384
LSB == VREF \div ADC_FULL
\* Mutant of ConvertToVoltage: the formula of range 4 whatever the range code.
ConvertToVoltage_AlwaysRange4(raw, inputRange) == raw * 3 * LSB - (3 * VREF) \div 2
ConvertToVoltage(raw, inputRange) ==
    CASE inputRange = 1 -> (raw * 3 * LSB) \div 2 - (3 * VREF) \div 4
      [] inputRange = 2 -> (raw * 3 * LSB) \div 2 - (3 * VREF) \div 2
      [] inputRange = 3 -> (raw * 3 * LSB) \div 2
      [] inputRange = 4 -> raw * 3 * LSB - (3 * VREF) \div 2
      [] inputRange = 5 -> raw * 3 * LSB - 3 * VREF
      [] inputRange = 6 -> raw * 3 * LSB
      [] inputRange = 7 -> raw * 6 * LSB - 3 * VREF
      [] OTHER -> 0

\* The threshold, 1 V/s, in uV/s; dt = 0.01 s, so dv = (cur - prev) * 100.
THRESHOLD == 1000000
DT_INV == 100

\* Mutant of DetectorUpdate: the first sample is differenced against the
\* initial cache.
DetectorUpdate_NoFirst(vs, dv, ch2_v, ch3_v) ==
    [ v_state |-> [ch2_prev |-> ch2_v, ch3_prev |-> ch3_v, record |-> TRUE],
      derivatives |-> [ ch2 |-> (ch2_v - vs.ch2_prev) * DT_INV,
                        ch3 |-> (ch3_v - vs.ch3_prev) * DT_INV,
                        ch2_flag |-> (ch2_v - vs.ch2_prev) * DT_INV > THRESHOLD,
                        ch3_flag |-> (ch3_v - vs.ch3_prev) * DT_INV > THRESHOLD ] ]
\* Mutant of DetectorUpdate: the flag is set from the threshold upwards.
DetectorUpdate_GreaterEqual(vs, dv, ch2_v, ch3_v) ==
    IF vs.record
    THEN [ v_state |-> [ch2_prev |-> ch2_v, ch3_prev |-> ch3_v, record |-> TRUE],
           derivatives |-> [ ch2 |-> (ch2_v - vs.ch2_prev) * DT_INV,
                             ch3 |-> (ch3_v - vs.ch3_prev) * DT_INV,
                             ch2_flag |-> (ch2_v - vs.ch2_prev) * DT_INV >= THRESHOLD,
                             ch3_flag |-> (ch3_v - vs.ch3_prev) * DT_INV >= THRESHOLD ] ]
    ELSE [ v_state |-> [vs EXCEPT !.record = TRUE], derivatives |-> dv ]
\* Lines 179-190: the derivative block, run once per decoded sample.
DetectorUpdate(vs, dv, ch2_v, ch3_v) ==
    IF vs.record
    THEN [ v_state |-> [ch2_prev |-> ch2_v, ch3_prev |-> ch3_v, record |-> TRUE],
           derivatives |-> [ ch2 |-> (ch2_v - vs.ch2_prev) * DT_INV,
                             ch3 |-> (ch3_v - vs.ch3_prev) * DT_INV,
                             ch2_flag |-> (ch2_v - vs.ch2_prev) * DT_INV > THRESHOLD,
                             ch3_flag |-> (ch3_v - vs.ch3_prev) * DT_INV > THRESHOLD ] ]
    ELSE [ v_state |-> [vs EXCEPT !.record = TRUE], derivatives |-> dv ]

---------------------------------------------------------------------------
\* Queue(maxsize): put_nowait, get_nowait.

QFull(q, cap) == Len(q) >= cap
\* Mutant of QGetNowait: the newest item is removed.
QGetNowait_Newest(q) == SubSeq(q, 1, Len(q) - 1)
\* get_nowait on a non-empty queue removes the oldest item.
QGetNowait(q) == Tail(q)
QPutNowait(q, item) == Append(q, item)

\* A queued value is the CH2 (CH3) voltage of one sample; the model queues the
\* sample's ordinal in its place, which tells the values of two samples apart.
ItemOf(s) == [n |-> s.n]
NoItem == [n |-> 0]
SerialVariants == { "serial_plot", "serial_log" }
Variants == SerialVariants \cup { "ble" }

NoCur == [n |-> 0, seq |-> 0, ms |-> 0, ch0 |-> 0, ch2 |-> 0, ch3 |-> 0]
Header == [kind |-> "header"]
NoPush == [q |-> "", n |-> 0, stored |-> TRUE, evicted |-> 0, lenAtEvict |-> 0]

\* No call of convert_to_voltage made yet.
NoConv == [raw |-> 0, inputRange |-> 0, volts |-> 0]

\* The state after the modules are imported, whatever the variant.
InitState ==
    /\ conv = NoConv
    /\ fw = [pc |-> "idle", seq |-> 0, ticks |-> 0, sent |-> << >>]
    /\ ramp = [pc |-> "off", i |-> 0, hold |-> 0, stopSeen |-> FALSE]
    /\ tmr = [active |-> FALSE, remaining |-> 0, pending |-> 0,
              armed |-> FALSE, fired |-> 0]
    /\ ser_out = [flip |-> FALSE, by |-> "", c |-> ""]
    /\ cam = [frame_index |-> 0, name |-> -1, save_queue |-> << >>, dropped |-> 0,
              spc |-> "wait", item |-> -1, saved |-> {}, stop |-> FALSE]
    /\ lpc = "read"
    /\ cur = NoCur
    /\ v_state = [ch2_prev |-> 0, ch3_prev |-> 0, record |-> FALSE]
    /\ derivatives = [ch2 |-> 0, ch3 |-> 0, ch2_flag |-> FALSE, ch3_flag |-> FALSE]
    /\ latest = [seq |-> 0, ms |-> 0, ch0 |-> 0, ch2 |-> 0, ch3 |-> 0]
    /\ data_queue_a0 = << >>
    /\ data_queue_a1 = << >>
    /\ motor_running = FALSE
    /\ location_flag = FALSE
    /\ csv_file = 0
    /\ csv_writer = 0
    /\ csv_index = 0
    /\ log = << >>
    /\ orphanRows = 0
    /\ unflushed = [cur |-> 0, stale |-> 0]
    /\ gpc = "idle"
    /\ n_pairs = 0
    /\ plot_s0 = 0
    /\ plot_a0 = NoItem
    /\ data_buffer_a0 = << >>
    /\ data_buffer_a1 = << >>
    /\ sample_idx = 0
    /\ nDecoded = 0
    /\ detLog = << >>
    /\ appendLog = << >>
    /\ sess = "none"
    /\ sessFrames = << >>
    /\ lastPush = NoPush
    /\ nPops0 = 0
    /\ badAt = 0
    /\ bpc = IF variant = "ble" THEN "start" ELSE "absent"
    /\ btimer = 0
    /\ stop_event = FALSE
    /\ csv_path \in IF variant = "ble" THEN BOOLEAN ELSE { FALSE }
    /\ ble_csv = "none"
    /\ ble_log = << >>
    /\ ble_queue_a0 = << >>
    /\ ble_queue_a1 = << >>
    /\ running_time = 0
    /\ connected = FALSE
    /\ mpc = "run"
    /\ mtimer = 0
    /\ nScanFails = 0
    /\ nWaits5 = 0
    /\ waited5 = 0
    /\ openConns = 0
    /\ nCloses = 0
    /\ stopInBackoff = FALSE
    /\ lostSeen = FALSE

Init == variant \in Variants /\ InitState

---------------------------------------------------------------------------
\* serial_listener_thread (motor_controls_gui.py 151-234)

Min2(a, b) == IF a <= b THEN a ELSE b

SampleOf(line, n) ==
    [ n   |-> n,
      seq |-> line.f[1].v,
      ms  |-> line.f[2].v,
      ch0 |-> ConvertToVoltage(line.f[3].v, 1),
      ch2 |-> ConvertToVoltage(line.f[4].v, 1),
      ch3 |-> ConvertToVoltage(line.f[5].v, 1) ]

\* Lines 221-227: the marker branch.
MotorAfterMarker(line, running) ==
    IF line.text = "RUNNING" /\ Len(line.f) = 0 THEN TRUE
    ELSE IF line.text = "STOP" /\ Len(line.f) = 0 THEN FALSE
    ELSE running

\* Lines 158-194: one readline, the parse, the derivative block and the
\* snapshot.  A decoded sample goes on to the two pushes and the log.
SerialHandle(line) ==
    /\ variant \in SerialVariants
    /\ lpc = "read"
    /\ IF ParsesAsSample(line)
       THEN /\ nDecoded < MaxFrames
            /\ LET s == SampleOf(line, nDecoded + 1)
                   d == DetectorUpdate(v_state, derivatives, s.ch2, s.ch3)
               IN /\ cur' = s
                  /\ v_state' = d.v_state
                  /\ derivatives' = d.derivatives
                  /\ latest' = [seq |-> s.seq, ms |-> s.ms, ch0 |-> s.ch0,
                                ch2 |-> s.ch2, ch3 |-> s.ch3]
                  /\ nDecoded' = s.n
                  /\ detLog' = Append(detLog, s.n)
                  /\ sessFrames' = IF sess = "active"
                                   THEN Append(sessFrames, s.n)
                                   ELSE sessFrames
                  /\ lpc' = "a0_put"
                  /\ badAt' = IF badAt = 1 THEN 2 ELSE badAt
                  /\ UNCHANGED << motor_running, sess >>
       ELSE /\ motor_running' =
                   IF line = LineBlank \/ (IsCsvCandidate(line) /\ Len(line.f) = 5)
                   THEN motor_running                  \* continue (160, 163, 172)
                   ELSE MotorAfterMarker(line, motor_running)
            /\ sess' = IF sess = "active" /\ ~motor_running' THEN "broken" ELSE sess
            /\ badAt' = IF line \in MalformedLines /\ badAt = 0 THEN 1 ELSE badAt
            /\ UNCHANGED << lpc, cur, v_state, derivatives, latest, nDecoded,
                            detLog, sessFrames >>
    /\ UNCHANGED << variant, sideVars, bleVars, data_queue_a0, data_queue_a1, location_flag,
                    csv_file, csv_writer, csv_index, log, orphanRows, unflushed, gpc,
                    n_pairs, plot_s0, plot_a0, data_buffer_a0, data_buffer_a1,
                    sample_idx, appendLog, lastPush, nPops0 >>

SerialReadLine == \E line \in SerialLines : SerialHandle(line)

\* ser.readline() raises SerialException: the thread prints and breaks (229-231).
SerialLinkError ==
    /\ variant \in SerialVariants
    /\ lpc = "read"
    /\ lpc' = "dead"
    /\ UNCHANGED << variant, sideVars, bleVars, cur, v_state, derivatives, latest, data_queue_a0,
                    data_queue_a1, motor_running, location_flag, csv_file,
                    csv_writer, csv_index, log, orphanRows, unflushed, gpc, n_pairs,
                    plot_s0, plot_a0, data_buffer_a0, data_buffer_a1,
                    sample_idx, nDecoded, detLog, appendLog, sess, sessFrames,
                    lastPush, nPops0, badAt >>

\* _q_put_drop_oldest (39-51), one queue operation per step.
\* First put_nowait (42): stored, or Full.
PutFirst(q, item, name) ==
    IF QFull(q, QueueCap)
    THEN [ q |-> q, full |-> TRUE, push |-> lastPush ]
    ELSE [ q |-> QPutNowait(q, item), full |-> FALSE,
           push |-> [q |-> name, n |-> item.n, stored |-> TRUE,
                     evicted |-> 0, lenAtEvict |-> 0] ]

\* Mutant of DropOldest: the oldest item is read and left in the queue.
DropOldest_Peek(q, item, name) ==
    [ q |-> q,
      push |-> [q |-> name, n |-> item.n, stored |-> FALSE,
                evicted |-> 0, lenAtEvict |-> 0] ]

\* get_nowait (45): drops the oldest, or Empty is swallowed (46-47).
DropOldest(q, item, name) ==
    IF Len(q) = 0
    THEN [ q |-> q,
           push |-> [q |-> name, n |-> item.n, stored |-> FALSE,
                     evicted |-> 0, lenAtEvict |-> 0] ]
    ELSE [ q |-> QGetNowait(q),
           push |-> [q |-> name, n |-> item.n, stored |-> FALSE,
                     evicted |-> Head(q).n, lenAtEvict |-> Len(q)] ]

\* Second put_nowait (49): stored, or Full is swallowed (50-51).
PutSecond(q, item) ==
    IF QFull(q, QueueCap)
    THEN [ q |-> q, push |-> lastPush ]
    ELSE [ q |-> QPutNowait(q, item), push |-> [lastPush EXCEPT !.stored = TRUE] ]

ListenerFrame == << variant, sideVars, bleVars, badAt, cur, v_state, derivatives, latest, motor_running,
                    location_flag, csv_file, csv_writer, csv_index, log,
                    orphanRows, unflushed, gpc, n_pairs, plot_s0, plot_a0, data_buffer_a0,
                    data_buffer_a1, sample_idx, nDecoded, detLog, appendLog,
                    sess, sessFrames, nPops0 >>

PushA0Put ==
    /\ lpc = "a0_put"
    /\ LET r == PutFirst(data_queue_a0, ItemOf(cur), "a0")
       IN /\ data_queue_a0' = r.q
          /\ lastPush' = r.push
          /\ lpc' = IF r.full THEN "a0_get" ELSE "a1_put"
    /\ UNCHANGED << data_queue_a1, ListenerFrame >>

PushA0Get ==
    /\ lpc = "a0_get"
    /\ LET r == DropOldest(data_queue_a0, ItemOf(cur), "a0")
       IN /\ data_queue_a0' = r.q
          /\ lastPush' = r.push
    /\ lpc' = "a0_put2"
    /\ UNCHANGED << data_queue_a1, ListenerFrame >>

PushA0Put2 ==
    /\ lpc = "a0_put2"
    /\ LET r == PutSecond(data_queue_a0, ItemOf(cur))
       IN /\ data_queue_a0' = r.q
          /\ lastPush' = r.push
    /\ lpc' = "a1_put"
    /\ UNCHANGED << data_queue_a1, ListenerFrame >>

PushA1Put ==
    /\ lpc = "a1_put"
    /\ LET r == PutFirst(data_queue_a1, ItemOf(cur), "a1")
       IN /\ data_queue_a1' = r.q
          /\ lastPush' = r.push
          /\ lpc' = IF r.full THEN "a1_get" ELSE "log"
    /\ UNCHANGED << data_queue_a0, ListenerFrame >>

PushA1Get ==
    /\ lpc = "a1_get"
    /\ LET r == DropOldest(data_queue_a1, ItemOf(cur), "a1")
       IN /\ data_queue_a1' = r.q
          /\ lastPush' = r.push
    /\ lpc' = "a1_put2"
    /\ UNCHANGED << data_queue_a0, ListenerFrame >>

PushA1Put2 ==
    /\ lpc = "a1_put2"
    /\ LET r == PutSecond(data_queue_a1, ItemOf(cur))
       IN /\ data_queue_a1' = r.q
          /\ lastPush' = r.push
    /\ lpc' = "log"
    /\ UNCHANGED << data_queue_a0, ListenerFrame >>

\* Mutant of RowOf: the row is built from the first frame of the run.
RowOf_First(s, idx, dv) == [kind |-> "row", index |-> idx, n |-> 1]

\* Lines 206-215.  A row is its csv_index and the ordinal n of the sample it
\* was built from; n stands for the columns copied from the sample and from
\* the detector.  The motor and vision columns are read from their owners and
\* are not part of the model.
RowOf(s, idx, dv) == [ kind |-> "row", index |-> idx, n |-> s.n ]

\* The index written into the row.
RowIndex == csv_index

\* if motor_state['running']: csv_writer.writerow([...]) (206-215).  The test
\* is on the motor alone: with csv_writer None the call raises AttributeError
\* and control goes to the handler at 232; with the motor stopped the line
\* falls through the marker branch.  The row goes into the buffer of the file
\* object the writer was built on.
SerialWriteRow ==
    /\ lpc = "log"
    /\ IF motor_running
       THEN IF csv_writer # 0
            THEN /\ IF csv_writer = csv_file
                    THEN /\ log' = Append(log, RowOf(cur, RowIndex, derivatives))
                         /\ unflushed' = [unflushed EXCEPT !.cur = @ + 1]
                         /\ UNCHANGED orphanRows
                    ELSE /\ orphanRows' = orphanRows + 1
                         /\ unflushed' = [unflushed EXCEPT !.stale = @ + 1]
                         /\ UNCHANGED log
                 /\ appendLog' = Append(appendLog, RowOf(cur, RowIndex, derivatives).n)
                 /\ lpc' = "flush"
            ELSE /\ lpc' = "error"
                 /\ UNCHANGED << log, orphanRows, unflushed, appendLog >>
       ELSE /\ lpc' = "read"
            /\ UNCHANGED << log, orphanRows, unflushed, appendLog >>
    /\ UNCHANGED << variant, sideVars, bleVars, cur, v_state, derivatives, latest, data_queue_a0,
                    data_queue_a1, motor_running, location_flag, csv_file,
                    csv_writer, csv_index, gpc, n_pairs, plot_s0, plot_a0,
                    data_buffer_a0, data_buffer_a1, sample_idx, nDecoded,
                    detLog, sess, sessFrames, lastPush, nPops0, badAt >>

\* except Exception as e: print(...) (232-233), then the sleep at 234 and the
\* next readline.
SerialCaught ==
    /\ lpc = "error"
    /\ lpc' = "read"
    /\ UNCHANGED << variant, sideVars, bleVars, cur, v_state, derivatives, latest, data_queue_a0,
                    data_queue_a1, motor_running, location_flag, csv_file,
                    csv_writer, csv_index, log, orphanRows, unflushed, gpc, n_pairs,
                    plot_s0, plot_a0, data_buffer_a0, data_buffer_a1,
                    sample_idx, nDecoded, detLog, appendLog, sess, sessFrames,
                    lastPush, nPops0, badAt >>

\* The buffers after flush() of the file object bound to csv_file: what that
\* object buffered is handed to the system, another object's buffer is not.
Flushed(u) == [u EXCEPT !.cur = 0]

\* csv_file.flush() (217): the global csv_file as bound at this moment
SerialFlush ==
    /\ lpc = "flush"
    /\ lpc' = "incr"
    /\ unflushed' = Flushed(unflushed)
    /\ UNCHANGED << variant, sideVars, bleVars, cur, v_state, derivatives, latest, data_queue_a0,
                    data_queue_a1, motor_running, location_flag, csv_file,
                    csv_writer, csv_index, log, orphanRows, gpc, n_pairs,
                    plot_s0, plot_a0, data_buffer_a0, data_buffer_a1,
                    sample_idx, nDecoded, detLog, appendLog, sess, sessFrames,
                    lastPush, nPops0, badAt >>

\* Mutant of NextIndex: the index is not advanced.
NextIndex_Stuck(i) == i
\* The index after a row (218).
NextIndex(i) == i + 1

\* csv_index += 1; continue (218-219)
SerialIncrIndex ==
    /\ lpc = "incr"
    /\ csv_index' = NextIndex(csv_index)
    /\ lpc' = "read"
    /\ UNCHANGED << variant, sideVars, bleVars, cur, v_state, derivatives, latest, data_queue_a0,
                    data_queue_a1, motor_running, location_flag, csv_file,
                    csv_writer, log, orphanRows, unflushed, gpc, n_pairs, plot_s0,
                    plot_a0, data_buffer_a0, data_buffer_a1, sample_idx,
                    nDecoded, detLog, appendLog, sess, sessFrames, lastPush,
                    nPops0, badAt >>

Listener ==
    \/ SerialReadLine
    \/ SerialLinkError
    \/ PushA0Put
    \/ PushA0Get
    \/ PushA0Put2
    \/ PushA1Put
    \/ PushA1Get
    \/ PushA1Put2
    \/ SerialWriteRow
    \/ SerialFlush
    \/ SerialCaught
    \/ SerialIncrIndex

---------------------------------------------------------------------------
\* The Tk thread: button callbacks, init_csv, update_plot.  Its callbacks run
\* one after the other; the listener thread runs between any two steps.

\* send_command: one command written to the serial port.  flip changes with
\* every command, by names the caller.
SendCommand(out, by, c) == [flip |-> ~out.flip, by |-> by, c |-> c]

\* Mutant of ActiveAfterStop: stop_motor leaves the timer as it is.
ActiveAfterStop_Kept(active) == active
\* stop_motor, 337: timer_state['active'] = False
ActiveAfterStop(active) == FALSE

\* stop_motor (335-339) on st = [running, tmr, out], called by `by`.  armed
\* records that a timed run is in force, fired counts the stops made by the
\* timer since the run was armed (2 stands for two or more).
StopMotorOn(st, by) ==
    [ running |-> FALSE,
      tmr |-> [st.tmr EXCEPT !.active = ActiveAfterStop(@), !.armed = FALSE,
                             !.fired = IF by = "timer" /\ @ < 2 THEN @ + 1 ELSE @],
      out |-> SendCommand(st.out, by, "X") ]

\* update_timer_display (286-308) on st = [running, tmr, out]
TimerDisplay(st) ==
    IF ~st.tmr.active
    THEN st
    ELSE IF st.tmr.remaining <= 0
         THEN LET s2 == StopMotorOn(st, "timer")
              IN [s2 EXCEPT !.tmr.active = FALSE]
         ELSE [st EXCEPT !.tmr.pending = @ + 1]

\* start_motor (310-333) on st with h hours entered: h = 0 is the manual run.
StartMotorOn(st, h) ==
    LET s1 == [st EXCEPT !.running = TRUE, !.out = SendCommand(st.out, "start", "S")]
    IN IF h > 0
       THEN TimerDisplay([s1 EXCEPT !.tmr.remaining = h, !.tmr.active = TRUE,
                                    !.tmr.armed = TRUE, !.tmr.fired = 0])
       ELSE [s1 EXCEPT !.tmr.active = FALSE, !.tmr.armed = FALSE]

MotorSt == [running |-> motor_running, tmr |-> tmr, out |-> ser_out]

\* start_motor (310-333).  The timer and the command stream are followed in
\* the "motor" session only; elsewhere start_motor is its write of
\* motor_state['running'].
StartMotor ==
    /\ gpc = "idle"
    /\ mpc # "exited"
    /\ IF variant = "motor"
       THEN \E h \in 0..MaxHours :
               /\ (h > 0 => tmr.pending < MaxPending)
               /\ LET s2 == StartMotorOn(MotorSt, h)
                  IN /\ motor_running' = s2.running
                     /\ tmr' = s2.tmr
                     /\ ser_out' = s2.out
       ELSE /\ motor_running' = TRUE
            /\ UNCHANGED << tmr, ser_out >>
    /\ UNCHANGED << variant, conv, fw, cam, ramp, bleVars, location_flag, serialVars, nDecoded,
                    appendLog, badAt >>

\* stop_motor (335-339) from the stop button.  stopSeen records a stop made
\* while the ramp thread is running.
StopMotor ==
    /\ gpc = "idle"
    /\ mpc # "exited"
    /\ IF variant = "motor"
       THEN LET s2 == StopMotorOn(MotorSt, "stop")
            IN /\ motor_running' = s2.running
               /\ tmr' = s2.tmr
               /\ ser_out' = s2.out
               /\ ramp' = [ramp EXCEPT !.stopSeen = @ \/ ramp.pc # "off"]
       ELSE /\ motor_running' = FALSE
            /\ UNCHANGED << ramp, tmr, ser_out >>
    /\ sess' = IF sess = "active" THEN "broken" ELSE sess
    /\ UNCHANGED << variant, conv, fw, cam, bleVars, location_flag, lpc, cur, v_state, derivatives,
                    latest, data_queue_a0, data_queue_a1, csv_file, csv_writer,
                    csv_index, log, orphanRows, unflushed, gpc, n_pairs, plot_s0, plot_a0,
                    data_buffer_a0, data_buffer_a1, sample_idx, nDecoded,
                    detLog, appendLog, sessFrames, lastPush, nPops0, badAt >>

InitFrame == << variant, sideVars, bleVars, badAt, lpc, cur, v_state, derivatives, latest, data_queue_a0,
                data_queue_a1, motor_running, location_flag, orphanRows,
                n_pairs, plot_s0, plot_a0, data_buffer_a0, data_buffer_a1,
                sample_idx, nDecoded, detLog, appendLog, lastPush, nPops0 >>

\* init_csv, 102-108: csv_file = open(CSV_PATH, "w"): the path is the same on
\* every call of a run (CURRENT_DIR is set once), so the file is emptied.
InitCsvOpen ==
    /\ variant = "serial_log"
    /\ gpc = "idle"
    /\ csv_file < MaxInits
    /\ csv_file' = csv_file + 1
    /\ log' = << >>
    /\ gpc' = "init_writer"
    /\ unflushed' = [cur |-> 0, stale |-> unflushed.stale + unflushed.cur]
    /\ sess' = "none"
    /\ sessFrames' = << >>
    /\ UNCHANGED << csv_writer, csv_index, InitFrame >>

\* 109: csv_writer = csv.writer(csv_file).  The writer bound before, and
\* with it the file object it was built on, loses its last reference: that
\* object is closed, which writes out what it had buffered.
InitCsvWriter ==
    /\ gpc = "init_writer"
    /\ csv_writer' = csv_file
    /\ unflushed' = [unflushed EXCEPT !.stale = 0]
    /\ gpc' = "init_header"
    /\ UNCHANGED << csv_file, csv_index, log, sess, sessFrames, InitFrame >>

\* 110-115: the header row
InitCsvHeader ==
    /\ gpc = "init_header"
    /\ log' = Append(log, Header)
    /\ gpc' = "init_index"
    /\ UNCHANGED << csv_file, csv_writer, csv_index, unflushed, sess, sessFrames, InitFrame >>

\* 117: csv_index = 0.  The session is active from here if the listener is
\* between two lines, no row slipped in before, and the motor is running.
InitCsvIndex ==
    /\ gpc = "init_index"
    /\ csv_index' = 0
    /\ gpc' = "idle"
    /\ sess' = IF lpc \in {"read", "dead"} /\ log = << Header >> /\ motor_running
               THEN "active" ELSE "broken"
    /\ UNCHANGED << csv_file, csv_writer, log, unflushed, sessFrames, InitFrame >>

\* deque(maxlen=BUFFER_SIZE).append
DequeAppend(buf, x) ==
    IF Len(buf) >= BufferSize THEN Append(Tail(buf), x) ELSE Append(buf, x)

PlotFrame == << variant, sideVars, bleVars, badAt, lpc, cur, v_state, derivatives, latest, motor_running,
                location_flag, csv_file, csv_writer, csv_index, log,
                orphanRows, unflushed, nDecoded, detLog, appendLog, sess, sessFrames,
                lastPush >>

\* update_plot (live_feed_gui.py 76): data_queue_a0.qsize()
PlotQsize0 ==
    /\ variant = "serial_plot"
    /\ gpc = "idle"
    /\ plot_s0' = Len(data_queue_a0)
    /\ gpc' = "plot_qsize1"
    /\ UNCHANGED << data_queue_a0, data_queue_a1, n_pairs, plot_a0,
                    data_buffer_a0, data_buffer_a1, sample_idx, nPops0,
                    PlotFrame >>

\* 76-79: n_pairs = min(qsize0, data_queue_a1.qsize(), DRAIN_CAP_PER_FRAME)
PlotQsize1 ==
    /\ gpc = "plot_qsize1"
    /\ n_pairs' = Min2(Min2(plot_s0, Len(data_queue_a1)), DrainCap)
    /\ gpc' = IF n_pairs' > 0 THEN "plot_get0" ELSE "idle"
    /\ plot_s0' = 0
    /\ UNCHANGED << data_queue_a0, data_queue_a1, plot_a0, data_buffer_a0,
                    data_buffer_a1, sample_idx, nPops0, PlotFrame >>

\* 82: a0 = data_queue_a0.get_nowait(); Empty breaks the loop (84-85)
PlotGet0 ==
    /\ gpc = "plot_get0"
    /\ IF Len(data_queue_a0) = 0
       THEN /\ gpc' = "idle"
            /\ n_pairs' = 0
            /\ UNCHANGED << data_queue_a0, plot_a0, nPops0 >>
       ELSE /\ plot_a0' = Head(data_queue_a0)
            /\ data_queue_a0' = Tail(data_queue_a0)
            /\ nPops0' = nPops0 + 1
            /\ gpc' = "plot_get1"
            /\ UNCHANGED n_pairs
    /\ UNCHANGED << data_queue_a1, plot_s0, data_buffer_a0, data_buffer_a1,
                    sample_idx, PlotFrame >>

\* 83-88: a1 = data_queue_a1.get_nowait(); both appended; sample_idx += 1
PlotGet1 ==
    /\ gpc = "plot_get1"
    /\ IF Len(data_queue_a1) = 0
       THEN /\ gpc' = "idle"
            /\ n_pairs' = 0
            /\ UNCHANGED << data_queue_a1, data_buffer_a0, data_buffer_a1,
                            sample_idx >>
       ELSE /\ data_queue_a1' = Tail(data_queue_a1)
            /\ data_buffer_a0' = DequeAppend(data_buffer_a0, plot_a0)
            /\ data_buffer_a1' = DequeAppend(data_buffer_a1, Head(data_queue_a1))
            /\ sample_idx' = sample_idx + 1
            /\ n_pairs' = n_pairs - 1
            /\ gpc' = IF n_pairs' > 0 THEN "plot_get0" ELSE "idle"
    /\ plot_a0' = NoItem
    /\ UNCHANGED << data_queue_a0, plot_s0, nPops0, PlotFrame >>

TkThread ==
    \/ StartMotor
    \/ StopMotor
    \/ InitCsvOpen
    \/ InitCsvWriter
    \/ InitCsvHeader
    \/ InitCsvIndex
    \/ PlotQsize0
    \/ PlotQsize1
    \/ PlotGet0
    \/ PlotGet1

---------------------------------------------------------------------------
\* BLE/client/ble_plotter.py: ble_receiver_task and its notification handler,
\* run by run_ble_in_thread on a daemon thread (ble_thread.py 14-21).

\* Durations in ticks of 0.1 s.
DISCOVERY_BACKOFF == 50
CONNECT_BACKOFF == 20
POLL_INTERVAL == 1
SHUTDOWN_GRACE == 2

\* PACK = struct.Struct("<10H"): ten little-endian unsigned 16-bit fields.
PACK_FIELDS == 10
PACK_SIZE == 2 * PACK_FIELDS
BURST == 5

\* DEVICE_ADDRESS = None: find_device scans by name.
DeviceAddressGiven == FALSE

\* struct.pack_into("<10H", buf, 0, *vals) on the peripheral.
PackLE(vals) ==
    [ i \in 1..(2 * Len(vals)) |->
        IF i % 2 = 1 THEN vals[(i + 1) \div 2] % 256
                     ELSE (vals[i \div 2] \div 256) % 256 ]

\* Mutant of Unpack: the two bytes of a field taken high byte first.
Unpack_BigEndian(data) == [ i \in 1..PACK_FIELDS |-> 256 * data[2 * i - 1] + data[2 * i] ]
\* PACK.unpack(data), for len(data) = PACK.size
Unpack(data) == [ i \in 1..PACK_FIELDS |-> data[2 * i - 1] + 256 * data[2 * i] ]

Vals1 == << 1, 2, 3, 4, 5, 6, 7, 8, 9, 10 >>
Vals2 == << 256, 4095, 0, 513, 65535, 1, 300, 2, 3, 4 >>
ValidPayloads == { PackLE(Vals1), PackLE(Vals2) }
\* one byte short, one byte long, empty
BadPayloads == { SubSeq(PackLE(Vals1), 1, PACK_SIZE - 1),
                 Append(PackLE(Vals2), 7),
                 << >> }
Payloads == ValidPayloads \cup BadPayloads

sharedVars == << variant, sideVars, motor_running, location_flag, nDecoded, appendLog, badAt >>
taskVars == << bpc, btimer, csv_path, ble_csv, connected, nScanFails, nWaits5,
               openConns, nCloses >>
handlerVars == << ble_queue_a0, ble_queue_a1, running_time >>
mainVars == << mpc, mtimer, stop_event, stopInBackoff >>

Alive == variant = "ble" /\ mpc # "exited"
Sleeping == bpc \in {"sleep5", "sleep2", "sleep_poll"}

\* 44-55: open the csv file and write its header
BleStart ==
    /\ Alive
    /\ bpc = "start"
    /\ IF csv_path
       THEN ble_csv' = "open" /\ ble_log' = << Header >>
       ELSE UNCHANGED << ble_csv, ble_log >>
    /\ bpc' = "loop"
    /\ UNCHANGED << btimer, csv_path, connected, nScanFails, nWaits5, openConns,
                    nCloses, waited5, handlerVars, lostSeen, mainVars, sharedVars, serialVars >>

\* 57-58: while not stop_event.is_set(): device = await find_device(...)
BleLoopCheck ==
    /\ Alive
    /\ bpc = "loop"
    /\ bpc' = IF stop_event THEN "close"
              ELSE IF DeviceAddressGiven THEN "connect" ELSE "scan"
    /\ openConns' = IF bpc' = "connect" THEN openConns + 1 ELSE openConns
    /\ UNCHANGED << btimer, csv_path, ble_csv, ble_log, connected, nScanFails,
                    nWaits5, nCloses, waited5, handlerVars, lostSeen, mainVars,
                    sharedVars, serialVars >>

\* 58-59, 65-67: the scan returns a device; async with BleakClient(...) begins
BleScanFound ==
    /\ Alive
    /\ bpc = "scan"
    /\ bpc' = "connect"
    /\ openConns' = openConns + 1
    /\ UNCHANGED << btimer, csv_path, ble_csv, ble_log, connected, nScanFails,
                    nWaits5, nCloses, waited5, handlerVars, lostSeen, mainVars,
                    sharedVars, serialVars >>

\* Mutant of PcAfterNotFound: the discovery is retried at once.
PcAfterNotFound_NoWait(stop) == "loop"
\* 59-63: if not device: if not stop_event.is_set(): sleep(5.0); continue
PcAfterNotFound(stop) == IF stop THEN "loop" ELSE "sleep5"

BleScanNotFound ==
    /\ Alive
    /\ bpc = "scan"
    /\ nScanFails < MaxScanFails
    /\ nScanFails' = nScanFails + 1
    /\ bpc' = PcAfterNotFound(stop_event)
    /\ btimer' = IF bpc' = "sleep5" THEN DISCOVERY_BACKOFF ELSE btimer
    /\ nWaits5' = IF bpc' = "sleep5" THEN nWaits5 + 1 ELSE nWaits5
    /\ UNCHANGED << csv_path, ble_csv, ble_log, connected, openConns, nCloses,
                    waited5, handlerVars, lostSeen, mainVars, sharedVars, serialVars >>

\* Mutant of PcAfterBackoff: the loop body is entered without the while test.
PcAfterBackoff_NoTest == "scan"
\* 63, 110: after the sleep the while condition is evaluated again
PcAfterBackoff == "loop"

\* asyncio.sleep(5.0) or asyncio.sleep(2.0) returns
BleBackoffDone ==
    /\ Alive
    /\ bpc \in {"sleep5", "sleep2"}
    /\ btimer = 0
    /\ bpc' = PcAfterBackoff
    /\ UNCHANGED << btimer, csv_path, ble_csv, ble_log, connected, nScanFails,
                    nWaits5, openConns, nCloses, waited5, handlerVars, lostSeen, mainVars,
                    sharedVars, serialVars >>

\* Mutant of PcAfterBleakError: the connection error ends the loop.
PcAfterBleakError_Break(stop) == "close"
\* 107-110: except BleakError: if not stop_event.is_set(): sleep(2.0)
PcAfterBleakError(stop) == IF stop THEN "loop" ELSE "sleep2"

\* 67: the connection is made
BleConnectOk ==
    /\ Alive
    /\ bpc = "connect"
    /\ bpc' = "subscribe"
    /\ connected' = TRUE
    /\ UNCHANGED << btimer, csv_path, ble_csv, ble_log, nScanFails, nWaits5,
                    openConns, nCloses, waited5, handlerVars, lostSeen, mainVars,
                    sharedVars, serialVars >>

\* 67, 107-110: connecting raises BleakError; the context was never entered
BleConnectError ==
    /\ Alive
    /\ bpc = "connect"
    /\ bpc' = PcAfterBleakError(stop_event)
    /\ btimer' = IF bpc' = "sleep2" THEN CONNECT_BACKOFF ELSE btimer
    /\ openConns' = openConns - 1
    /\ UNCHANGED << csv_path, ble_csv, ble_log, connected, nScanFails, nWaits5,
                    nCloses, waited5, handlerVars, lostSeen, mainVars, sharedVars,
                    serialVars >>

\* Mutant of PcAfterFatal: the loop goes on after the exception.
PcAfterFatal_Retry == "loop"
\* 111-113: except Exception: break
PcAfterFatal == "close"

\* 67, 111-113: connecting raises another exception (the connect timeout is
\* asyncio.TimeoutError): break
BleConnectFatal ==
    /\ Alive
    /\ bpc = "connect"
    /\ bpc' = PcAfterFatal
    /\ openConns' = openConns - 1
    /\ UNCHANGED << btimer, csv_path, ble_csv, ble_log, connected, nScanFails,
                    nWaits5, nCloses, waited5, handlerVars, lostSeen, mainVars,
                    sharedVars, serialVars >>

\* 102: start_notify returns, or raises inside the context
BleSubscribe ==
    /\ Alive
    /\ bpc = "subscribe"
    /\ bpc' \in {"poll", "aexit_err", "aexit_fatal"}
    /\ UNCHANGED << btimer, csv_path, ble_csv, ble_log, connected, nScanFails,
                    nWaits5, openConns, nCloses, waited5, handlerVars, lostSeen, mainVars,
                    sharedVars, serialVars >>

\* Mutant of PcAfterPoll: the streaming loop does not test the connection.
PcAfterPoll_IgnoreLink(conn, stop) == IF ~stop THEN "sleep_poll" ELSE "aexit_ok"
\* Mutant of PcAfterPoll: the streaming loop does not test stop_event.
PcAfterPoll_IgnoreStop(conn, stop) == IF conn THEN "sleep_poll" ELSE "aexit_ok"
\* Mutant of PcAfterPoll: the streaming loop is left without leaving the
\* client's context.
PcAfterPoll_NoExit(conn, stop) == IF conn /\ ~stop THEN "sleep_poll" ELSE "loop"
\* 104-105: the while test; when it fails the async with block ends
PcAfterPoll(conn, stop) == IF conn /\ ~stop THEN "sleep_poll" ELSE "aexit_ok"

\* 104-105: while client.is_connected and not stop_event.is_set(): sleep(0.1)
BlePoll ==
    /\ Alive
    /\ bpc = "poll"
    /\ bpc' = PcAfterPoll(connected, stop_event)
    /\ btimer' = IF bpc' = "sleep_poll" THEN POLL_INTERVAL ELSE btimer
    /\ UNCHANGED << csv_path, ble_csv, ble_log, connected, nScanFails, nWaits5,
                    openConns, nCloses, waited5, handlerVars, lostSeen, mainVars,
                    sharedVars, serialVars >>

BlePollWake ==
    /\ Alive
    /\ bpc = "sleep_poll"
    /\ btimer = 0
    /\ bpc' = "poll"
    /\ UNCHANGED << btimer, csv_path, ble_csv, ble_log, connected, nScanFails,
                    nWaits5, openConns, nCloses, waited5, handlerVars, lostSeen, mainVars,
                    sharedVars, serialVars >>

\* The context manager's exit (disconnect), then the loop, the BleakError
\* handler (107-110) or the break (111-113).
BleExitContext ==
    /\ Alive
    /\ bpc \in {"aexit_ok", "aexit_err", "aexit_fatal"}
    /\ connected' = FALSE
    /\ openConns' = openConns - 1
    /\ bpc' = CASE bpc = "aexit_ok" -> "loop"
                [] bpc = "aexit_err" -> PcAfterBleakError(stop_event)
                [] OTHER -> PcAfterFatal
    /\ btimer' = IF bpc' = "sleep2" THEN CONNECT_BACKOFF ELSE btimer
    /\ UNCHANGED << csv_path, ble_csv, ble_log, nScanFails, nWaits5, nCloses,
                    waited5, handlerVars, lostSeen, mainVars, sharedVars, serialVars >>

\* 115-118: if csv_file: csv_file.close()
BleClose ==
    /\ Alive
    /\ bpc = "close"
    /\ IF ble_csv = "open"
       THEN ble_csv' = "closed" /\ nCloses' = nCloses + 1
       ELSE UNCHANGED << ble_csv, nCloses >>
    /\ bpc' = "done"
    /\ UNCHANGED << btimer, csv_path, ble_log, connected, nScanFails, nWaits5,
                    openConns, waited5, handlerVars, lostSeen, mainVars, sharedVars,
                    serialVars >>

\* The link drops while streaming.
LinkLost ==
    /\ Alive
    /\ bpc \in {"poll", "sleep_poll"}
    /\ connected
    /\ connected' = FALSE
    /\ lostSeen' = TRUE
    /\ UNCHANGED << bpc, btimer, csv_path, ble_csv, ble_log, nScanFails, nWaits5,
                    openConns, nCloses, waited5, handlerVars, mainVars,
                    sharedVars, serialVars >>

\* Queue().put of a burst: the queue has no maxsize.
PutAll(q, vals, from, to) == q \o SubSeq(vals, from, to)

\* Mutant of HandlerRegistered: the handler runs before start_notify.
HandlerRegistered_Early(pc) == pc \in {"connect", "subscribe", "sleep_poll", "aexit_ok"}
\* 102-105: the handler is registered by start_notify and is called while
\* the task awaits inside the client's context: in the streaming loop's
\* sleep and in the disconnect that ends the context.
HandlerRegistered(pc) == pc \in {"sleep_poll", "aexit_ok"}

\* Mutant of BleLogGate: the motor alone opens the logging branch.
BleLogGate_MotorOnly(running, flag) == running
\* 81: if motor_state['running'] and location_state['flag']
BleLogGate(running, flag) == running /\ flag

\* location_state['flag'] starts False (states.py 31) and nothing in the
\* repository writes it, so the handler's logging branch (81-98) never runs.
\* notification_handler (70-100), called on the task's event loop while the
\* task sleeps in the streaming loop.  elapsedPositive: whether
\* time.time() - running_time > 0; when running_time was set two statements
\* before, the clock may not have advanced.
BleNotify(data, elapsedPositive) ==
    /\ Alive
    /\ HandlerRegistered(bpc)
    /\ connected
    /\ IF Len(data) # PACK_SIZE
       THEN \* struct.error (99-100)
            /\ badAt' = IF badAt = 0 THEN 1 ELSE badAt
            /\ UNCHANGED << ble_queue_a0, ble_queue_a1, running_time, ble_log,
                            nDecoded, appendLog >>
       ELSE /\ nDecoded < MaxNotifs
            /\ nDecoded' = nDecoded + 1
            /\ badAt' = IF badAt = 1 THEN 2 ELSE badAt
            /\ ble_queue_a0' = PutAll(ble_queue_a0, Unpack(data), 1, BURST)
            /\ ble_queue_a1' = PutAll(ble_queue_a1, Unpack(data), BURST + 1, PACK_FIELDS)
            /\ IF BleLogGate(motor_running, location_flag)
               THEN /\ running_time' = 1
                    /\ IF ble_csv # "none" /\ elapsedPositive
                       THEN /\ ble_log' = Append(ble_log, [kind |-> "row", n |-> nDecoded + 1])
                            /\ appendLog' = Append(appendLog, nDecoded + 1)
                       ELSE \* no csv_writer, or a0_angle is unbound (91-97)
                            UNCHANGED << ble_log, appendLog >>
               ELSE UNCHANGED << running_time, ble_log, appendLog >>
    /\ UNCHANGED << variant, sideVars, motor_running, location_flag, bpc, btimer, csv_path,
                    ble_csv, connected, nScanFails, nWaits5, openConns, nCloses,
                    waited5, lostSeen, mainVars, serialVars >>

BleNotification ==
    \E data \in Payloads :
        \E elapsedPositive \in (IF running_time = 0 THEN BOOLEAN ELSE { TRUE }) :
            BleNotify(data, elapsedPositive)

BleTask ==
    \/ BleStart
    \/ BleLoopCheck
    \/ BleScanFound
    \/ BleScanNotFound
    \/ BleBackoffDone
    \/ BleConnectOk
    \/ BleConnectError
    \/ BleConnectFatal
    \/ BleSubscribe
    \/ BlePoll
    \/ BlePollWake
    \/ BleExitContext
    \/ BleClose
    \/ LinkLost
    \/ BleNotification

---------------------------------------------------------------------------
\* main.py: the main thread.  _shutdown is the SIGINT/SIGTERM handler and an
\* atexit callback; sys.exit(0) in the handler ends the interpreter, which
\* runs the atexit callbacks, _shutdown among them, and then exits; the BLE
\* thread is a daemon thread and ends with the process.

SetsStopInBackoff == ~stop_event /\ bpc \in {"sleep5", "sleep2"}

\* 15-17: a signal arrives: stop_event.set(); time.sleep(0.2)
MainSignal ==
    /\ variant = "ble"
    /\ mpc = "run"
    /\ stop_event' = TRUE
    /\ stopInBackoff' = (stopInBackoff \/ SetsStopInBackoff)
    /\ mpc' = "sig_sleep"
    /\ mtimer' = SHUTDOWN_GRACE
    /\ UNCHANGED << taskVars, ble_log, waited5, handlerVars, lostSeen, sharedVars, serialVars >>

\* 18, then 22 and 15-17: sys.exit(0); at exit _shutdown runs again
MainSysExit ==
    /\ variant = "ble"
    /\ mpc = "sig_sleep"
    /\ mtimer = 0
    /\ mpc' = "atexit_sleep"
    /\ mtimer' = SHUTDOWN_GRACE
    /\ UNCHANGED << stop_event, stopInBackoff, taskVars, ble_log, waited5,
                    handlerVars, lostSeen, sharedVars, serialVars >>

\* 42, then 22 and 15-17: run_gui returns and main ends; at exit _shutdown runs
MainGuiClosed ==
    /\ variant = "ble"
    /\ mpc = "run"
    /\ stop_event' = TRUE
    /\ stopInBackoff' = (stopInBackoff \/ SetsStopInBackoff)
    /\ mpc' = "atexit_sleep"
    /\ mtimer' = SHUTDOWN_GRACE
    /\ UNCHANGED << taskVars, ble_log, waited5, handlerVars, lostSeen, sharedVars, serialVars >>

\* 18 in the atexit callback: the process exits
MainExit ==
    /\ variant = "ble"
    /\ mpc = "atexit_sleep"
    /\ mtimer = 0
    /\ mpc' = "exited"
    /\ UNCHANGED << mtimer, stop_event, stopInBackoff, taskVars, ble_log, waited5,
                    handlerVars, lostSeen, sharedVars, serialVars >>

MainThread ==
    \/ MainSignal
    \/ MainSysExit
    \/ MainGuiClosed
    \/ MainExit

\* 0.1 s passes.  A step that waits for nothing takes no time: time passes
\* only while the task is in a sleep, a scan, a connect, a subscribe, a
\* disconnect, or has ended, and no sleep has run out.
Tick ==
    /\ Alive
    /\ bpc \notin {"start", "loop", "poll", "close"}
    /\ Sleeping => btimer > 0
    /\ mpc \in {"sig_sleep", "atexit_sleep"} => mtimer > 0
    /\ Sleeping \/ mpc \in {"sig_sleep", "atexit_sleep"}
    /\ btimer' = IF Sleeping THEN btimer - 1 ELSE btimer
    /\ mtimer' = IF mpc \in {"sig_sleep", "atexit_sleep"} THEN mtimer - 1 ELSE mtimer
    /\ waited5' = IF bpc = "sleep5" THEN waited5 + 1 ELSE waited5
    /\ UNCHANGED << bpc, csv_path, ble_csv, connected, nScanFails, nWaits5,
                    openConns, nCloses, ble_log, handlerVars, lostSeen, mpc, stop_event,
                    stopInBackoff, sharedVars, serialVars >>

Next == Listener \/ TkThread \/ BleTask \/ MainThread \/ Tick

Spec == Init /\ [][Next]_vars

---------------------------------------------------------------------------
\* The receiver task while the process lives: the stop signal is set
\* (main.py 16) and the process has not exited yet.  Each wait returns:
\* every step of the task that waits for nothing is taken, time passes in
\* the sleeps, and the scan, the connect, the subscription and the
\* disconnect come back with one of their outcomes.

\* stop_event.set()
StopSet ==
    /\ variant = "ble"
    /\ mpc = "run"
    /\ ~stop_event
    /\ stop_event' = TRUE
    /\ stopInBackoff' = (stopInBackoff \/ SetsStopInBackoff)
    /\ UNCHANGED << mpc, mtimer, taskVars, ble_log, waited5, handlerVars, lostSeen,
                    sharedVars, serialVars >>

SupervisorInit == Init /\ variant = "ble"

\* The owner of location_state (states.py 29-32) raises the flag that the
\* notification handler reads at 81.
LocationFlagSet ==
    /\ variant = "ble"
    /\ mpc # "exited"
    /\ ~location_flag
    /\ location_flag' = TRUE
    /\ UNCHANGED << variant, sideVars, motor_running, nDecoded, appendLog, badAt,
                    bleVars, serialVars >>

\* The BLE session with the motor buttons and the location flag at work.
HandlerInit == variant = "ble" /\ InitState

HandlerNext == BleTask \/ StopSet \/ Tick \/ StartMotor \/ StopMotor \/ LocationFlagSet

HandlerSpec == HandlerInit /\ [][HandlerNext]_vars

SupervisorNext == BleTask \/ StopSet \/ Tick

WaitsReturn ==
    /\ WF_vars(BleStart)
    /\ WF_vars(BleLoopCheck)
    /\ WF_vars(BleScanFound \/ BleScanNotFound)
    /\ WF_vars(BleBackoffDone)
    /\ WF_vars(BleConnectOk \/ BleConnectError \/ BleConnectFatal)
    /\ WF_vars(BleSubscribe)
    /\ WF_vars(BlePoll)
    /\ WF_vars(BlePollWake)
    /\ WF_vars(BleExitContext)
    /\ WF_vars(BleClose)
    /\ WF_vars(Tick)

SupervisorSpec == SupervisorInit /\ [][SupervisorNext]_vars /\ WaitsReturn

\* The device is discoverable and connectable again and again: a scan that
\* is repeated finds it, a connect that is repeated succeeds, and so does a
\* subscription.
DeviceComesBack ==
    /\ SF_vars(BleScanFound)
    /\ SF_vars(BleConnectOk)
    /\ SF_vars(BleSubscribe /\ bpc' = "poll")

ReconnectSpec == SupervisorSpec /\ DeviceComesBack

---------------------------------------------------------------------------
\* The derivative block of serial_listener_thread (179-190) on its own, fed
\* with CH2/CH3 voltages in microvolts: steps of 10000 uV give a derivative
\* equal to the threshold of 1 V/s, steps of 10001 uV one just above it.

DetectorVolts == { -50000, 0, 10000, 10001, 40500 }

DetectorInit == variant = "detector" /\ InitState

\* 174-194 for one decoded sample: the derivative block and the snapshot
DetectorStep ==
    /\ variant = "detector"
    /\ nDecoded < MaxFrames
    /\ \E ch2_v \in DetectorVolts, ch3_v \in DetectorVolts :
          LET d == DetectorUpdate(v_state, derivatives, ch2_v, ch3_v)
          IN /\ v_state' = d.v_state
             /\ derivatives' = d.derivatives
             /\ latest' = [latest EXCEPT !.ch2 = ch2_v, !.ch3 = ch3_v]
    /\ nDecoded' = nDecoded + 1
    /\ UNCHANGED << variant, sideVars, bleVars, lpc, cur, data_queue_a0, data_queue_a1,
                    motor_running, location_flag, csv_file, csv_writer,
                    csv_index, log, orphanRows, unflushed, gpc, n_pairs, plot_s0, plot_a0,
                    data_buffer_a0, data_buffer_a1, sample_idx, detLog,
                    appendLog, sess, sessFrames, lastPush, nPops0, badAt >>

DetectorNext == DetectorStep

DetectorSpec == DetectorInit /\ [][DetectorNext]_vars

---------------------------------------------------------------------------
\* convert_to_voltage (75-91) on its own: called with raw codes around zero,
\* mid-scale and full scale of the 14-bit converter and with range codes in
\* and around 1..7.  Voltages are in microvolts.

ConvertRaws == { 0, 1, 2, 4096, 8191, 8192, 8193, 12288, 16383, 16384, 65535 }
ConvertRanges == -1..9

\* The formula of each range as gain * ratio * vREF - offset * vREF with
\* ratio = raw / 2^14: the gain in halves (1.5, 1.5, 1.5, 3, 3, 3, 6) and the
\* offset in quarters (0.75, 1.5, 0, 1.5, 3, 0, 3).
RangeGainHalves == << 3, 3, 3, 6, 6, 6, 12 >>
RangeOffsetQuarters == << 3, 6, 0, 6, 12, 0, 12 >>

ConvertInit == variant = "convert" /\ InitState

\* one call convert_to_voltage(raw, inputRange) with the default vREF
ConvertStep ==
    /\ variant = "convert"
    /\ \E raw \in ConvertRaws, inputRange \in ConvertRanges :
          conv' = [raw |-> raw, inputRange |-> inputRange,
                   volts |-> ConvertToVoltage(raw, inputRange)]
    /\ UNCHANGED << variant, fw, motorVars, cam, serialVars, bleVars, motor_running,
                    location_flag, nDecoded, appendLog, badAt >>

ConvertNext == ConvertStep

ConvertSpec == ConvertInit /\ [][ConvertNext]_vars

---------------------------------------------------------------------------
\* server/server.py: the firmware's telemetry producer.  With DEBUG = False
\* (15) a hardware timer calls send_packet 100 times a second (208); a
\* callback runs to its end before the next one starts.

\* Timer callbacks in one run.
MaxTicks == 4

\* Everything but the firmware's state.
FwFrame == << variant, conv, motorVars, cam, serialVars, bleVars, motor_running, location_flag,
             nDecoded, appendLog, badAt >>

FirmwareInit == variant = "firmware" /\ InitState

\* 147-161: the channels are read, the packet "<IIHHH" (seq, ms, ch0, ch2,
\* ch3) is packed and handed to ble.gatts_notify outside any try.  ok: the
\* stack accepts it; otherwise OSError leaves the callback before seq += 1.
FwNotifyFirst(ok) ==
    /\ variant = "firmware"
    /\ fw.pc = "idle"
    /\ fw.ticks < MaxTicks
    /\ fw' = IF ok
             THEN [fw EXCEPT !.pc = "second", !.ticks = @ + 1,
                             !.sent = Append(@, [seq |-> fw.seq, fmt |-> "IIHHH"])]
             ELSE [fw EXCEPT !.ticks = @ + 1]
    /\ UNCHANGED FwFrame

\* 163, 168-175 with DEBUG = False: the packet "<IIHH" (seq, ms, ch2, ch3) is
\* packed from the same seq and notified; OSError is caught and printed.
FwNotifySecond(ok) ==
    /\ fw.pc = "second"
    /\ fw' = IF ok
             THEN [fw EXCEPT !.pc = "incr",
                             !.sent = Append(@, [seq |-> fw.seq, fmt |-> "IIHH"])]
             ELSE [fw EXCEPT !.pc = "incr"]
    /\ UNCHANGED FwFrame

\* 178: seq += 1
FwIncrSeq ==
    /\ fw.pc = "incr"
    /\ fw' = [fw EXCEPT !.pc = "idle", !.seq = @ + 1]
    /\ UNCHANGED FwFrame

FirmwareNext ==
    \/ \E ok \in BOOLEAN : FwNotifyFirst(ok)
    \/ \E ok \in BOOLEAN : FwNotifySecond(ok)
    \/ FwIncrSeq

FirmwareSpec == FirmwareInit /\ [][FirmwareNext]_vars

---------------------------------------------------------------------------
\* gui/motor_controls_gui.py: the motor buttons, the run timer and the
\* auto-ramp thread, which share motor_state['running'], timer_state and
\* the serial port.

\* Everything the motor session leaves alone.
MotorFrame == << variant, conv, fw, cam, bleVars, location_flag, serialVars, nDecoded,
                appendLog, badAt >>

MotorInit == variant = "motor" /\ InitState

\* The clock advances towards timer_state['end_time'].
TimePasses ==
    /\ variant = "motor"
    /\ tmr.remaining > 0
    /\ tmr' = [tmr EXCEPT !.remaining = @ - 1]
    /\ UNCHANGED << motor_running, ramp, ser_out, MotorFrame >>

\* A callback scheduled by root.after(1000, update_timer_display) (308) runs
\* on the Tk loop.  A stop it makes while the ramp thread runs is seen by
\* that thread like any other.
TimerCallback ==
    /\ variant = "motor"
    /\ tmr.pending > 0
    /\ LET s2 == TimerDisplay([MotorSt EXCEPT !.tmr.pending = @ - 1])
       IN /\ motor_running' = s2.running
          /\ tmr' = s2.tmr
          /\ ser_out' = s2.out
          /\ ramp' = [ramp EXCEPT !.stopSeen =
                          @ \/ (ramp.pc # "off" /\ s2.out # ser_out)]
    /\ UNCHANGED MotorFrame

\* The Auto RPM Ramp button starts the thread (414); 353-360:
\* motor_state['running'] = True
RampStart ==
    /\ variant = "motor"
    /\ ramp.pc = "off"
    /\ motor_running' = TRUE
    /\ ramp' = [pc |-> "speed", i |-> 1, hold |-> 0, stopSeen |-> FALSE]
    /\ UNCHANGED << tmr, ser_out, MotorFrame >>

\* 362-369: the speed command of step i, then the hold begins
RampSpeed ==
    /\ ramp.pc = "speed"
    /\ ser_out' = SendCommand(ser_out, "ramp", "S")
    /\ ramp' = [ramp EXCEPT !.pc = "hold", !.hold = Bracket]
    /\ UNCHANGED << motor_running, tmr, MotorFrame >>

\* 370-375: one pass of the hold loop: the running flag is looked at once,
\* then the thread sleeps a second; after the last pass the next step.
RampCheck ==
    /\ ramp.pc = "hold"
    /\ IF ~motor_running
       THEN /\ ser_out' = SendCommand(ser_out, "ramp", "X")
            /\ ramp' = [ramp EXCEPT !.pc = "off"]
       ELSE /\ ramp' = IF ramp.hold > 1
                       THEN [ramp EXCEPT !.hold = @ - 1]
                       ELSE IF ramp.i < RampSteps
                            THEN [ramp EXCEPT !.pc = "speed", !.i = @ + 1, !.hold = 0]
                            ELSE [ramp EXCEPT !.pc = "complete", !.hold = 0]
            /\ UNCHANGED ser_out
    /\ UNCHANGED << motor_running, tmr, MotorFrame >>

\* 377-380: the sequence is complete
RampComplete ==
    /\ ramp.pc = "complete"
    /\ ser_out' = SendCommand(ser_out, "ramp", "X")
    /\ motor_running' = FALSE
    /\ ramp' = [ramp EXCEPT !.pc = "off"]
    /\ UNCHANGED << tmr, MotorFrame >>

MotorNext ==
    \/ StartMotor
    \/ StopMotor
    \/ TimePasses
    \/ TimerCallback
    \/ RampStart
    \/ RampSpeed
    \/ RampCheck
    \/ RampComplete

\* The Tk loop runs the callbacks it has scheduled.
MotorSpec == MotorInit /\ [][MotorNext]_vars /\ WF_vars(TimerCallback)

---------------------------------------------------------------------------
\* gui/camera_feed_gui.py: update_ui on the Tk loop publishes the name of
\* every N-th frame shown while the motor runs and hands the frame to the
\* frame saver thread through save_queue.  A frame is known by its index.

\* Everything the camera window leaves alone.
CamFrame == << variant, conv, fw, motorVars, bleVars, location_flag, serialVars,
              motor_running, nDecoded, appendLog, badAt >>

CameraInit == variant = "camera" /\ InitState

\* update_ui (136-203) with a frame on frame_queue: with the motor running,
\* every N-th frame is named in frame_state["name"] (194) and then offered
\* to save_queue.put_nowait (197); queue.Full counts a drop (198-199).
UpdateUi ==
    /\ variant = "camera"
    /\ ~cam.stop
    /\ cam.frame_index < MaxCamFrames
    /\ cam' = IF motor_running
              THEN IF cam.frame_index % SaveEvery = 0
                   THEN IF Len(cam.save_queue) < SaveCap
                        THEN [cam EXCEPT !.name = cam.frame_index,
                                         !.save_queue = Append(@, cam.frame_index),
                                         !.frame_index = @ + 1]
                        ELSE [cam EXCEPT !.name = cam.frame_index,
                                         !.dropped = @ + 1,
                                         !.frame_index = @ + 1]
                   ELSE [cam EXCEPT !.frame_index = @ + 1]
              ELSE cam
    /\ UNCHANGED CamFrame

\* frame_saver, 120-124: while not stop_event.is_set(): save_queue.get;
\* on an empty queue the wait times out and the loop tests again.
SaverGet ==
    /\ variant = "camera"
    /\ cam.spc = "wait"
    /\ cam' = IF cam.stop
              THEN [cam EXCEPT !.spc = "done"]
              ELSE IF Len(cam.save_queue) = 0
                   THEN cam
                   ELSE [cam EXCEPT !.spc = "write", !.item = Head(cam.save_queue),
                                    !.save_queue = Tail(@)]
    /\ cam' # cam
    /\ UNCHANGED CamFrame

\* 126-131: cv2.imwrite of the frame taken
SaverWrite ==
    /\ cam.spc = "write"
    /\ cam' = [cam EXCEPT !.spc = "wait", !.item = -1, !.saved = @ \cup {cam.item}]
    /\ UNCHANGED CamFrame

\* on_close (208-210): stop_event.set()
OnClose ==
    /\ variant = "camera"
    /\ ~cam.stop
    /\ cam' = [cam EXCEPT !.stop = TRUE]
    /\ UNCHANGED CamFrame

CameraNext ==
    \/ UpdateUi
    \/ SaverGet
    \/ SaverWrite
    \/ OnClose
    \/ StartMotor
    \/ StopMotor

CameraSpec == CameraInit /\ [][CameraNext]_vars
---------------------------------------------------------------------------
\* Properties.

LastOf(q) == q[Len(q)]

\* Pushes of _q_put_drop_oldest completed on each queue.
Pushed0 == IF lpc \in {"a0_put", "a0_get", "a0_put2"} THEN nDecoded - 1 ELSE nDecoded
Pushed1 == IF lpc \in {"a0_put", "a0_get", "a0_put2", "a1_put", "a1_get", "a1_put2"}
           THEN nDecoded - 1 ELSE nDecoded

\* The last QueueCap of the first m samples, in push order.
LastItems(m) == [ i \in 1..QueueCap |-> [n |-> m - QueueCap + i] ]

\* C1: in an active logging session (init_csv done, motor running since),
\* when K samples have been read and processed, the log is the header
\* followed by exactly K rows with index 0, 1, ..., K-1, the i-th built from
\* the i-th sample of the session.
C1_RowIndexDense ==
    (sess = "active" /\ lpc \in {"read", "dead"}) =>
        log = << Header >> \o
              [ i \in 1..Len(sessFrames) |->
                    [kind |-> "row", index |-> i - 1, n |-> sessFrames[i]] ]

C1_Witness ==
    /\ sess = "active"
    /\ lpc = "read"
    /\ Len(sessFrames) >= 2
    /\ Len(log) = Len(sessFrames) + 1

\* C3: with no item ever taken by a consumer, once more items than the
\* capacity have been pushed onto a channel queue it holds exactly the last
\* QueueCap items pushed, in push order.
C3_DropOldestKeepsLastN ==
    /\ (nPops0 = 0 /\ Pushed0 > QueueCap /\ lpc \notin {"a0_put", "a0_get", "a0_put2"})
          => data_queue_a0 = LastItems(Pushed0)
    /\ (sample_idx = 0 /\ Pushed1 > QueueCap /\ lpc \notin {"a1_put", "a1_get", "a1_put2"})
          => data_queue_a1 = LastItems(Pushed1)

C3_Witness ==
    /\ nPops0 = 0
    /\ sample_idx = 0
    /\ lpc = "read"
    /\ Pushed0 > QueueCap
    /\ Pushed1 > QueueCap
    /\ Len(data_queue_a0) = QueueCap

\* C5: every _q_put_drop_oldest runs to its end whatever the consumer does,
\* and when it returns the new item is the newest item of the queue: the
\* item given up on a full queue is never the new one.
C5_PushStoresNewItem ==
    [][ /\ (lpc \in {"a0_put", "a0_put2"} /\ lpc' = "a1_put")
            => (Len(data_queue_a0') > 0 /\ LastOf(data_queue_a0') = ItemOf(cur)
                /\ lastPush'.stored)
        /\ (lpc \in {"a1_put", "a1_put2"} /\ lpc' = "log")
            => (Len(data_queue_a1') > 0 /\ LastOf(data_queue_a1') = ItemOf(cur)
                /\ lastPush'.stored)
        /\ (lpc \in {"a0_put", "a0_get", "a0_put2", "a1_put", "a1_get", "a1_put2"})
            => ENABLED Listener
      ]_vars

\* A push that found the queue full completed while the consumer was taking
\* items.
C5_Witness ==
    /\ variant = "serial_plot"
    /\ lpc = "a1_put"
    /\ lastPush.q = "a0"
    /\ lastPush.stored
    /\ lastPush.evicted > 0
    /\ nPops0 > 0
    /\ gpc # "idle"


C4_AllQueuesBounded ==
    /\ Len(data_queue_a0) <= QueueCap
    /\ Len(data_queue_a1) <= QueueCap
    /\ Len(ble_queue_a0) <= QueueCap
    /\ Len(ble_queue_a1) <= QueueCap

\* C6: a malformed serial line or a BLE payload of the wrong length changes
\* nothing: no queue, no derivative state, no index, no log; the listener is
\* back at its read and the task stays in its streaming loop, so the next
\* valid frame is handled from the same state as if the malformed one had
\* never come.
C6_MalformedFrameRejected ==
    [][ /\ \A line \in MalformedLines :
              SerialHandle(line) =>
                  UNCHANGED << variant, sideVars, serialVars, bleVars, motor_running,
                               location_flag, nDecoded, appendLog >>
        /\ \A data \in BadPayloads :
              BleNotify(data, TRUE) =>
                  UNCHANGED << variant, sideVars, serialVars, bleVars, motor_running,
                               location_flag, nDecoded, appendLog >>
      ]_vars

\* A valid line was decoded and pushed after a malformed one was rejected.
C6_Witness ==
    /\ variant = "serial_log"
    /\ badAt = 2
    /\ lpc = "read"
    /\ Len(data_queue_a0) > 0
    /\ LastOf(data_queue_a0).n = nDecoded
    /\ Len(appendLog) > 0
    /\ LastOf(appendLog) = nDecoded

\* C7: while the stop signal has not been set, a connection attempt is
\* preceded by one full 5 s wait for each discovery that found nothing, and
\* at most one connection attempt is open at any time.
C7_OneBackoffPerFailure ==
    /\ (~stop_event /\ bpc \in {"connect", "subscribe", "poll", "sleep_poll"}) =>
           /\ nWaits5 = nScanFails
           /\ waited5 = nScanFails * DISCOVERY_BACKOFF
    /\ openConns \in {0, 1}
    /\ openConns = 1 <=>
           bpc \in {"connect", "subscribe", "poll", "sleep_poll",
                    "aexit_ok", "aexit_err", "aexit_fatal"}

\* Streaming was reached after two discoveries that found nothing.
C7_Witness ==
    /\ ~stop_event
    /\ bpc = "sleep_poll"
    /\ connected
    /\ nScanFails = 2
    /\ nWaits5 = 2
    /\ waited5 = 2 * DISCOVERY_BACKOFF

\* C8 as stated: once the stop signal is set, no discovery scan and no
\* connection attempt begins.
C8_NoAttemptAfterStop ==
    [][ stop_event =>
            /\ ~(bpc # "scan" /\ bpc' = "scan")
            /\ ~(bpc # "connect" /\ bpc' = "connect") ]_vars

\* C9: if the stop signal was set during a backoff sleep, the task goes from
\* the sleep to the loop test, to the close and to its end, starting no scan
\* and no connection, and at its end the log file, if one was opened, has been
\* closed exactly once.
C9_StopDuringBackoff ==
    [][ stopInBackoff' =>
            /\ bpc' \in {"sleep5", "sleep2", "loop", "close", "done"}
            /\ bpc' = "loop" => bpc \in {"sleep5", "sleep2", "loop"}
            /\ bpc' = "done" =>
                   /\ nCloses' = (IF csv_path THEN 1 ELSE 0)
                   /\ ble_csv' = (IF csv_path THEN "closed" ELSE "none") ]_vars

\* The task ended after a stop signal set during a backoff sleep, and closed
\* its log file.
C9_Witness ==
    /\ stopInBackoff
    /\ bpc = "done"
    /\ nCloses = 1
    /\ ble_csv = "closed"

\* C10 as stated: when the process has exited after the stop signal, the
\* log file the task opened has been closed by the task.
C10_ClosedBeforeExit ==
    (mpc = "exited" /\ ble_csv # "none") => ble_csv = "closed"

\* C11: at most one BleakClient context is being entered or is entered at
\* any time, and a discovery scan or a connection attempt begins only when
\* no context is open: the previous one has been left.
C11_OneConnectionAtATime ==
    [][ /\ openConns' \in {0, 1}
        /\ (bpc' \in {"scan", "connect"} /\ bpc' # bpc) => openConns = 0
        /\ connected' => openConns' = 1 ]_vars

\* A connection attempt is under way after an earlier connection streamed,
\* lost its link and was left.
C11_Witness ==
    /\ lostSeen
    /\ bpc = "connect"
    /\ openConns = 1
    /\ ~connected

\* C12: a BleakError raised while connecting, or inside the client's context
\* while subscribing or streaming, does not end the task: with the stop
\* signal unset the task sleeps the full 2 s backoff, with it set it skips
\* the sleep; either way it goes back to the loop test, and from there, the
\* stop signal still unset, to a new discovery.
C12_BleakErrorRetries ==
    [][ /\ (BleConnectError \/ (bpc = "aexit_err" /\ BleExitContext)) =>
               IF stop_event
               THEN bpc' = "loop"
               ELSE bpc' = "sleep2" /\ btimer' = CONNECT_BACKOFF
        /\ (bpc = "sleep2" /\ bpc' # "sleep2") => (btimer = 0 /\ bpc' = "loop")
        /\ (bpc = "sleep2" /\ btimer' # btimer) => btimer' = btimer - 1
        /\ (bpc = "loop" /\ ~stop_event /\ bpc' # "loop") =>
               bpc' = (IF DeviceAddressGiven THEN "connect" ELSE "scan") ]_vars

\* The 2 s backoff after a connection error has run out, the stop signal
\* unset: the task is about to go back to the loop test.
C12_Witness ==
    /\ bpc = "sleep2"
    /\ btimer = 0
    /\ ~stop_event
    /\ openConns = 0

\* C13: an exception other than BleakError raised while connecting, or inside
\* the client's context, takes the task out of the retry loop to the close
\* of the log file; from there it only ends: no scan and no connection
\* follows, and at its end the file, if one was opened, is closed.
C13_UnexpectedErrorIsFatal ==
    [][ /\ (BleConnectFatal \/ (bpc = "aexit_fatal" /\ BleExitContext)) =>
               (bpc' = "close" /\ openConns' = 0)
        /\ bpc = "close" => bpc' \in {"close", "done"}
        /\ bpc = "done" => bpc' = "done"
        /\ (bpc = "close" /\ bpc' = "done") =>
               /\ ble_csv' = (IF csv_path THEN "closed" ELSE "none")
               /\ nCloses' = (IF csv_path THEN 1 ELSE 0) ]_vars

\* The task has ended with its log file closed although the stop signal was
\* never set: it left the loop through the break.
C13_Witness ==
    /\ bpc = "done"
    /\ ~stop_event
    /\ ble_csv = "closed"
    /\ nCloses = 1

Streaming == bpc \in {"poll", "sleep_poll"} /\ connected
LinkDown == bpc \in {"poll", "sleep_poll"} /\ ~connected /\ ~stop_event

C15_StopLeadsToEnd ==
    stop_event ~> (bpc = "done" /\ ble_csv # "open" /\ openConns = 0)

\* The task has ended, its log file closed, after the stop signal was set
\* on a task that had connected and decoded a notification.
C15_Witness ==
    /\ stop_event
    /\ bpc = "done"
    /\ ble_csv = "closed"
    /\ nDecoded > 0

\* C16: the streaming loop is entered only from a subscription that
\* succeeded, the subscription only from a connect that succeeded, the
\* connect only from a discovery that returned a device (or from the loop
\* test when the address is known), all in one pass of the loop; and a
\* notification is handled, well formed or not, only inside the client's
\* context after the subscription: never before it and never once the
\* context has been left.
C16_StreamingAfterSubscribe ==
    [][ /\ (bpc' = "poll" /\ bpc \notin {"poll", "sleep_poll"}) => bpc = "subscribe"
        /\ (bpc' = "sleep_poll" /\ bpc # "sleep_poll") => (bpc = "poll" /\ connected)
        /\ (bpc' = "subscribe" /\ bpc # "subscribe") => (bpc = "connect" /\ connected')
        /\ (bpc' = "connect" /\ bpc # "connect") =>
               (bpc = "scan" \/ (DeviceAddressGiven /\ bpc = "loop"))
        /\ (variant = "ble" /\ << ble_queue_a0, ble_queue_a1, nDecoded, badAt >>'
                                 # << ble_queue_a0, ble_queue_a1, nDecoded, badAt >>) =>
               /\ bpc \in {"sleep_poll", "aexit_ok"}
               /\ bpc' = bpc
               /\ openConns = 1
               /\ connected ]_vars

\* The task streams, a notification has been handled, after a discovery that
\* found nothing and a second pass of the loop.
C16_Witness ==
    /\ bpc = "sleep_poll"
    /\ connected
    /\ nDecoded > 0
    /\ Len(ble_queue_a0) = BURST * nDecoded
    /\ nScanFails > 0

\* C17: after the first sample the detector has processed, the derivative of
\* CH2 and of CH3 is 0 and both flags are false, whatever the sample's
\* voltages.
C17_FirstSampleZero ==
    nDecoded = 1 =>
        /\ v_state.record
        /\ derivatives = [ch2 |-> 0, ch3 |-> 0, ch2_flag |-> FALSE, ch3_flag |-> FALSE]

\* The first sample, with voltages far from 0, has been processed.
C17_Witness ==
    /\ variant = "detector"
    /\ nDecoded = 1
    /\ latest.ch2 = 40500
    /\ latest.ch3 = -50000
    /\ derivatives.ch2 = 0
    /\ ~derivatives.ch2_flag

\* C18 as stated: for every sample after the first, the derivative of each
\* channel is that sample's voltage minus the voltage of the sample before
\* it, over 0.01 s.
C18_DifferenceOfConsecutive ==
    [][ (variant # "ble" /\ nDecoded >= 1 /\ nDecoded' = nDecoded + 1) =>
            /\ derivatives'.ch2 = (latest'.ch2 - latest.ch2) * DT_INV
            /\ derivatives'.ch3 = (latest'.ch3 - latest.ch3) * DT_INV ]_vars

\* C19 as stated: after every sample the detector has processed, the first
\* included, each channel's previous-value cache holds that sample's
\* voltage.
C19_CacheHoldsLastSample ==
    (variant # "ble" /\ nDecoded >= 1) =>
        /\ v_state.ch2_prev = latest.ch2
        /\ v_state.ch3_prev = latest.ch3

\* C20: each channel's flag is true exactly when its derivative is strictly
\* greater than the threshold; a derivative equal to the threshold and a
\* negative derivative of any size leave the flag false.
C20_FlagIffAboveThreshold ==
    /\ derivatives.ch2_flag <=> derivatives.ch2 > THRESHOLD
    /\ derivatives.ch3_flag <=> derivatives.ch3 > THRESHOLD

\* CH2 rose at exactly the threshold rate and CH3 fell faster than it: both
\* flags are false.
C20_Witness ==
    /\ variant = "detector"
    /\ v_state.record
    /\ derivatives.ch2 = THRESHOLD
    /\ ~derivatives.ch2_flag
    /\ derivatives.ch3 < 0 - THRESHOLD
    /\ ~derivatives.ch3_flag

\* C21: a row once written to the log file of a session is never removed or
\* altered: in every step each log keeps what it held as a prefix and only
\* grows by appending, also when the log is initialised a second time.
C21_LogOnlyGrows ==
    [][ /\ Len(log') >= Len(log)
        /\ SubSeq(log', 1, Len(log)) = log
        /\ Len(ble_log') >= Len(ble_log)
        /\ SubSeq(ble_log', 1, Len(ble_log)) = ble_log ]_vars

\* C22: whenever init_csv has run to its end, also when the listener was
\* processing samples with the motor running meanwhile, the log begins with
\* the header row and the rows after it carry the indices 0, 1, 2, ... in
\* file order.
C22_HeaderThenRowsFromZero ==
    (gpc = "idle" /\ csv_file > 0) =>
        /\ Len(log) >= 1
        /\ log[1] = Header
        /\ \A i \in 2..Len(log) : log[i].kind = "row" /\ log[i].index = i - 2

\* C23: a row is appended only while a logging session is open: with no
\* writer installed a sample makes no write attempt and raises no error, so
\* the listener is never past a write (done or failed) without a writer, and
\* the BLE log holds nothing unless it was opened.
C23_AppendOnlyInSession ==
    /\ csv_writer = 0 => lpc \notin {"flush", "incr", "error"}
    /\ ble_csv = "none" => ble_log = << >>

\* C24: every appended row is flushed before the next frame is processed:
\* whenever the listener is between two frames no appended row is left in a
\* buffer, the rows made durable being as many as the rows appended.
C24_FlushedBetweenFrames ==
    lpc = "read" => (unflushed.cur = 0 /\ unflushed.stale = 0)

\* C25: the ingestion tasks (the serial listener, the BLE receiver and its
\* handler) only read the motor and vision state: no step of theirs changes
\* the motor's running flag or the location flag.
C25_IngestionReadsOnly ==
    [][ (Listener \/ BleTask) => UNCHANGED << motor_running, location_flag >> ]_vars

\* C26: a serial error while reading does not end serial ingestion: in every
\* state of a serial session, also after a SerialException, the listener can
\* still read the next line.
C26_ListenerSurvivesSerialError ==
    (variant \in SerialVariants /\ nDecoded < MaxFrames /\ lpc \in {"read", "dead"})
        => ENABLED SerialReadLine

\* C27: a notification carrying the little-endian frame of ten 16-bit values
\* is decoded to the same ten values in the same order; the first five are
\* put on the a0 queue and the last five on the a1 queue, each in frame order
\* behind what the queue held.
C27_FrameRoundTrip ==
    [][ \A vals \in {Vals1, Vals2} : \A e \in BOOLEAN :
            BleNotify(PackLE(vals), e) =>
                /\ Unpack(PackLE(vals)) = vals
                /\ ble_queue_a0' = ble_queue_a0 \o SubSeq(vals, 1, 5)
                /\ ble_queue_a1' = ble_queue_a1 \o SubSeq(vals, 6, 10) ]_vars

C27_Witness ==
    /\ ble_queue_a0 = << 256, 4095, 0, 513, 65535, 1, 2, 3, 4, 5 >>
    /\ ble_queue_a1 = << 1, 300, 2, 3, 4, 6, 7, 8, 9, 10 >>

\* C28: convert_to_voltage is total: a range code outside 1..7 gives exactly
\* 0, range 4 with the mid-scale code 8192 gives exactly 0, and each range
\* 1..7 gives gain * ratio * vREF - offset * vREF of that range.
C28_ConvertTotal ==
    /\ conv.inputRange \notin 1..7 => conv.volts = 0
    /\ (conv.inputRange = 4 /\ conv.raw = 8192) => conv.volts = 0
    /\ conv.inputRange \in 1..7 =>
           conv.volts = (conv.raw * RangeGainHalves[conv.inputRange] * LSB) \div 2
                        - (RangeOffsetQuarters[conv.inputRange] * VREF) \div 4

C28_Witness ==
    conv = [raw |-> 8192, inputRange |-> 4, volts |-> 0]

\* C29: the plot consumer drains the two channel queues in lockstep: the two
\* plot buffers always have the same length and the values at the same
\* position of the CH2 buffer and of the CH3 buffer come from the same sample,
\* however the producer's pushes and evictions interleave with the drain.
C29_BuffersInLockstep ==
    /\ Len(data_buffer_a0) = Len(data_buffer_a1)
    /\ \A i \in 1..Len(data_buffer_a0) : data_buffer_a0[i].n = data_buffer_a1[i].n

\* C30: a push evicts at most one item, and only from a queue that is at
\* capacity at the moment of the eviction: with a consumer draining at the
\* same time, nothing is evicted from a queue that has room.
C30_EvictOnlyAtCapacity ==
    [][ /\ (PushA0Get /\ data_queue_a0' # data_queue_a0) =>
               /\ Len(data_queue_a0) = QueueCap
               /\ Len(data_queue_a0') = Len(data_queue_a0) - 1
        /\ (PushA1Get /\ data_queue_a1' # data_queue_a1) =>
               /\ Len(data_queue_a1) = QueueCap
               /\ Len(data_queue_a1') = Len(data_queue_a1) - 1 ]_vars

\* C31: the values the BLE notification handler pushes go into the queue
\* instances that the live-plot consumer drains: every valid notification
\* changes the two queues update_plot reads, so that each value can later be
\* taken by the plot or evicted by a push.
C31_HandlerFeedsPlotQueues ==
    [][ \A vals \in {Vals1, Vals2} : \A e \in BOOLEAN :
            BleNotify(PackLE(vals), e) =>
                /\ data_queue_a0' # data_queue_a0
                /\ data_queue_a1' # data_queue_a1 ]_vars

\* C32: the firmware's sequence numbers increase by exactly one per emitted
\* telemetry packet: the k-th notification handed to the BLE stack carries
\* the sequence number k - 1, so no two notifications carry the same number.
C32_SeqPerNotification ==
    \A i \in 1..Len(fw.sent) : fw.sent[i].seq = i - 1

\* C33: every valid notification handled while the motor is running, the
\* location flag is set and the CSV file is open appends exactly one row to
\* the BLE log, also the first one, for which the elapsed running time read
\* from the clock can be zero.
C33_ValidNotificationLogsRow ==
    [][ \A vals \in {Vals1, Vals2} : \A e \in BOOLEAN :
            (BleNotify(PackLE(vals), e) /\ motor_running /\ location_flag
                                         /\ ble_csv = "open")
                => Len(ble_log') = Len(ble_log) + 1 ]_vars

\* C34: a row is appended only for a sample handled while the motor is
\* running (on the BLE path also with the location flag set); a sample
\* handled otherwise has been pushed to the channel queues and leaves the log
\* and the row index as they were.
C34_RowOnlyWhileRunning ==
    [][ /\ (SerialWriteRow /\ ~motor_running) =>
               /\ lastPush.q = "a1" /\ lastPush.n = cur.n
               /\ UNCHANGED << log, csv_index, orphanRows, appendLog >>
               /\ lpc' = "read"
        /\ (SerialWriteRow /\ appendLog' # appendLog) => motor_running
        /\ \A vals \in {Vals1, Vals2} : \A e \in BOOLEAN :
              BleNotify(PackLE(vals), e) =>
                  /\ Len(ble_queue_a0') = Len(ble_queue_a0) + BURST
                  /\ Len(ble_queue_a1') = Len(ble_queue_a1) + BURST
                  /\ ble_log' # ble_log => (motor_running /\ location_flag)
                  /\ ~(motor_running /\ location_flag) =>
                         UNCHANGED << ble_log, appendLog >> ]_vars

C34_Witness ==
    /\ variant = "serial_log"
    /\ lpc = "read"
    /\ nDecoded = 2
    /\ appendLog = << 2 >>
    /\ data_queue_a0 = << [n |-> 1], [n |-> 2] >>
    /\ data_queue_a1 = << [n |-> 1], [n |-> 2] >>
    /\ log = << Header, [kind |-> "row", index |-> 0, n |-> 2] >>

\* C35: once stop_motor has been invoked during an auto-ramp sequence the
\* ramp thread issues no further speed command, also when the motor is
\* started again before the thread next looks at the running flag.
C35_NoSpeedAfterStop ==
    [][ RampSpeed => ~ramp.stopSeen ]_vars

\* C36: in a timed run, the timer callback that finds the end time passed
\* with the timer active invokes stop_motor, once, and leaves the timer
\* inactive; an expired active timer does not stay so.  After a manual
\* stop_motor or a restart in manual mode (no timed run in force) a pending
\* timer callback sends no command and leaves the motor flag alone.
C36_TimerStopsOnce ==
    /\ [](tmr.fired <= 1)
    /\ [][ TimerCallback =>
             /\ (tmr.active /\ tmr.remaining = 0) =>
                    /\ ~motor_running'
                    /\ ~tmr'.active
                    /\ tmr'.fired = 1
                    /\ ser_out' = SendCommand(ser_out, "timer", "X")
             /\ ~tmr.armed =>
                    /\ ser_out' = ser_out
                    /\ motor_running' = motor_running ]_vars
    /\ (tmr.active /\ tmr.remaining = 0) ~> (~tmr.active \/ tmr.remaining > 0)

C36_Witness ==
    /\ tmr.fired = 1
    /\ ~tmr.active
    /\ ~motor_running
    /\ ser_out.by = "timer"
    /\ tmr.pending = 1

\* Frames the save queue accepted: still queued, held by the saver, or
\* written to disk.
CamAccepted ==
    { cam.save_queue[i] : i \in 1..Len(cam.save_queue) }
        \cup (IF cam.item # -1 THEN {cam.item} ELSE {}) \cup cam.saved

\* C37: the frame name published in frame_state['name'] always names a frame
\* that was accepted onto the save queue (and so can be written to disk by
\* the frame saver), also when the save queue is full, and once the saver
\* has ended no accepted frame is left unwritten.
C37_NamedFrameIsSaved ==
    /\ cam.name # -1 => cam.name \in CamAccepted
    /\ cam.spc = "done" => CamAccepted = cam.saved

=============================================================================
